---- MODULE Spec2Model ----
(***************************************************************************)
(* A model of elm_mirror.py: the registry, the sync run (run_sync and      *)
(* sync_package), the WSGI application (ElmMirrorApp), the background sync *)
(* loop and the verification pass (run_verify).                            *)
(*                                                                         *)
(* Strings are sequences of tokens: a token is a piece of text holding     *)
(* none of the separators "/" and "@", which are tokens of their own.      *)
(* A request path is the sequence of its "/"-separated segments.           *)
(***************************************************************************)
EXTENDS Integers, Sequences, FiniteSets, TLC

(***************************************************************************)
(* Bounds of the model.                                                    *)
(***************************************************************************)
\* Sync runs the background loop starts.
MaxRuns == 2
\* Length of the list the upstream answers to /all-packages/since/0.
MaxRemoteLen == 2
\* Largest n of a GET /all-packages/since/{n}.
MaxSince == 3

(***************************************************************************)
(* Program constants.                                                      *)
(***************************************************************************)
STATUS_SUCCESS == "success"
STATUS_PENDING == "pending"
STATUS_FAILED == "failed"
STATUS_IGNORED == "ignored"
\* get_package_status's None
None == "none"
\* run_sync saves the registry when i % 10 == 0
SavePeriod == 10

Statuses == {STATUS_SUCCESS, STATUS_PENDING, STATUS_FAILED, STATUS_IGNORED}

(***************************************************************************)
(* The identifiers of the model: two versions of one package, and a text   *)
(* that is no author/name@version.                                         *)
(***************************************************************************)
P1 == <<"a", "/", "b", "@", "1">>
P2 == <<"a", "/", "b", "@", "2">>
BAD == <<"bad">>
Ids == {P1, P2, BAD}
GoodIds == {P1, P2}
\* a/b@1/ matches the pattern of parse_package_id, with the version "1/"
P1_SLASH == <<"a", "/", "b", "@", "1", "/">>

\* Archive contents and their SHA-1 digests.
Contents == {"z1", "z2"}
Digests == {"h1", "h2"}
ABSENT == "absent"
\* hash.json that is no JSON (json.JSONDecodeError), hash.json that is a JSON
\* object without "hash" (KeyError), and hash.json whose bytes are no UTF-8 or
\* whose JSON is no object (UnicodeDecodeError, TypeError)
INVALID == "invalid"
NOKEY == "nokey"
UNDECODABLE == "undecodable"

compute_sha1(content) == IF content = "z1" THEN "h1" ELSE "h2"

(***************************************************************************)
(* Small helpers on sequences.                                             *)
(***************************************************************************)
Range(s) == {s[k] : k \in 1..Len(s)}

\* the least index of s holding tok, from index `from` on; 0 when none
IndexFrom(s, tok, from) ==
  LET hits == {k \in from..Len(s) : s[k] = tok}
  IN IF hits = {} THEN 0 ELSE CHOOSE k \in hits : \A j \in hits : k <= j

SeqsUpTo(S, n) == UNION {[1..k -> S] : k \in 0..n}

NoRepeat(s) == \A j, k \in 1..Len(s) : j /= k => s[j] /= s[k]

(***************************************************************************)
(* Registry management.                                                    *)
(***************************************************************************)
Entry(id, status) == [id |-> id, status |-> status]

IdsOf(packages) == [k \in 1..Len(packages) |-> packages[k].id]

get_package_status(packages, package_id) ==
  LET k == IndexFrom(IdsOf(packages), package_id, 1)
  IN IF k = 0 THEN None ELSE packages[k].status

\* a variant that appends without looking for the identifier
set_package_status_append(packages, package_id, status) ==
  Append(packages, Entry(package_id, status))

\* a variant that takes the entry out and appends it
set_package_status_move(packages, package_id, status) ==
  Append(SelectSeq(packages, LAMBDA pkg : pkg.id /= package_id),
         Entry(package_id, status))

set_package_status(packages, package_id, status) ==
  LET k == IndexFrom(IdsOf(packages), package_id, 1)
  IN IF k = 0
       THEN Append(packages, Entry(package_id, status))
       ELSE [packages EXCEPT ![k].status = status]

\* re.match(r"^([^/]+)/([^@]+)@(.+)$"): the author ends at the first "/",
\* the name at the first "@" after it, the version is the rest.
parse_package_id(package_id) ==
  LET s == IndexFrom(package_id, "/", 1)
      a == IF s = 0 THEN 0 ELSE IndexFrom(package_id, "@", s + 1)
  IN IF s > 1 /\ a > s + 1 /\ a < Len(package_id)
       THEN [ok |-> TRUE,
             author |-> SubSeq(package_id, 1, s - 1),
             name |-> SubSeq(package_id, s + 1, a - 1),
             version |-> SubSeq(package_id, a + 1, Len(package_id))]
       ELSE [ok |-> FALSE, author |-> <<>>, name |-> <<>>, version |-> <<>>]

\* f"{author}/{name}@{version}"
RenderId(author, name, version) == author \o <<"/">> \o name \o <<"@">> \o version

(***************************************************************************)
(* The registry file.  Its text is a sequence of tokens: the opening of    *)
(* the JSON object, one token for each entry, and the closing.             *)
(***************************************************************************)
Tok(kind, id, status) == [kind |-> kind, id |-> id, status |-> status]
OPEN == Tok("{", <<>>, "")
CLOSE == Tok("}", <<>>, "")

\* json.dump(registry, f, indent=2): the text written for registry["packages"]
dump(packages) ==
  <<OPEN>> \o [k \in 1..Len(packages) |-> Tok("entry", packages[k].id, packages[k].status)]
    \o <<CLOSE>>

\* json.load(f): the packages of a complete text, an error for any other text
json_load(text) ==
  LET n == Len(text)
      complete == /\ n >= 2
                  /\ text[1] = OPEN
                  /\ text[n] = CLOSE
                  /\ \A k \in 2..(n - 1) : text[k].kind = "entry"
  IN IF complete
       THEN [ok |-> TRUE,
             packages |-> [k \in 1..(n - 2) |-> Entry(text[k + 1].id, text[k + 1].status)]]
       ELSE [ok |-> FALSE, packages |-> <<>>]

NoFile == [exists |-> FALSE, text |-> <<>>]
File(text) == [exists |-> TRUE, text |-> text]

registry_path == "registry.json"
\* a variant that writes the registry in place
temp_path_in_place == "registry.json"
temp_path == "registry.json.tmp"

\* load_registry: the empty registry when registry.json does not exist
load_registry(dir) ==
  IF dir[registry_path].exists THEN json_load(dir[registry_path].text)
  ELSE [ok |-> TRUE, packages |-> <<>>]

(***************************************************************************)
(* The package list (sync policy).                                         *)
(***************************************************************************)
NoPolicy == [configured |-> FALSE, list |-> {}]
Policy(list) == [configured |-> TRUE, list |-> list]
Policies == {NoPolicy,
             Policy({<<"a", "/", "b">>}),
             Policy({P1}),
             Policy({<<"c", "/", "d">>})}

\* a variant without the match by package name
should_sync_package_exact_only(package_id, package_list) ==
  IF ~package_list.configured THEN "yes"
  ELSE IF package_id \in package_list.list THEN "yes"
  ELSE IF ~parse_package_id(package_id).ok THEN "raise"
  ELSE "no"

\* "raise" when parse_package_id raises ValueError
should_sync_package(package_id, package_list) ==
  IF ~package_list.configured THEN "yes"
  ELSE IF package_id \in package_list.list THEN "yes"
  ELSE LET p == parse_package_id(package_id)
       IN IF ~p.ok THEN "raise"
          ELSE IF (p.author \o <<"/">> \o p.name) \in package_list.list THEN "yes"
          ELSE "no"

(***************************************************************************)
(* The content store.  files maps a package directory (its path segments   *)
(* below the mirror directory) to the state of its three files.            *)
(***************************************************************************)
\* the "/"-separated segments of a token string
RECURSIVE SplitSegs(_)
SplitSegs(str) ==
  LET s == IndexFrom(str, "/", 1)
  IN IF s = 0 THEN <<str>>
     ELSE <<SubSeq(str, 1, s - 1)>> \o SplitSegs(SubSeq(str, s + 1, Len(str)))

\* pathlib keeps the segments of a joined path that are not empty
Parts(segs) == SelectSeq(segs, LAMBDA seg : seg /= <<>>)

\* mirror_dir / "packages" / author / name / version
PackageDir(author, name, version) ==
  <<<<"packages">>>> \o Parts(SplitSegs(author) \o SplitSegs(name) \o SplitSegs(version))

DirOfId(package_id) ==
  LET p == parse_package_id(package_id)
  IN PackageDir(p.author, p.name, p.version)

Dirs == {DirOfId(id) : id \in GoodIds}

NoFiles == [hash |-> ABSENT, elm |-> FALSE, zip |-> ABSENT]
EmptyStore == [d \in Dirs |-> NoFiles]

\* A directory next to the mirror directory, with a hash.json of its own: the
\* path is relative to the mirror directory.
OutsideDir == <<<<"..">>, <<"x">>>>
OutsideFiles == [hash |-> "h1", elm |-> FALSE, zip |-> ABSENT]

Prefixes(s) == {SubSeq(s, 1, k) : k \in 0..Len(s)}

\* the directories that exist: the mirror directory, the directories on the
\* way to a stored file, and those on the way to the directory next to the
\* mirror
ExistingDirs(store) ==
  Prefixes(OutsideDir)
    \cup UNION {Prefixes(pd) : pd \in {sd \in Dirs : store[sd] /= NoFiles}}

\* one path segment applied to the directory reached so far: a segment ".."
\* leaves that directory, which has to exist
ResolveSegment(existing, before, seg) ==
  IF ~before.ok THEN before
  ELSE IF seg /= <<"..">> THEN [ok |-> TRUE, dir |-> Append(before.dir, seg)]
  ELSE IF before.dir \notin existing THEN [ok |-> FALSE, dir |-> <<>>]
  ELSE IF before.dir = <<>> \/ before.dir[Len(before.dir)] = <<"..">>
    THEN [ok |-> TRUE, dir |-> Append(before.dir, <<"..">>)]
  ELSE [ok |-> TRUE, dir |-> SubSeq(before.dir, 1, Len(before.dir) - 1)]

\* the directory the operating system reaches for mirror_dir / d, given the
\* directories that exist
Resolve(existing, d) ==
  LET reach[k \in 0..Len(d)] ==
        IF k = 0 THEN [ok |-> TRUE, dir |-> <<>>]
        ELSE CHOOSE r \in {ResolveSegment(existing, before, d[k]) : before \in {reach[k - 1]}} : TRUE
  IN reach[Len(d)]

\* the files of directory d, none when the directory does not exist
FilesAt(store, d) ==
  CHOOSE f \in {IF ~r.ok THEN NoFiles
                ELSE IF r.dir \in Dirs THEN store[r.dir]
                ELSE IF r.dir = OutsideDir THEN OutsideFiles
                ELSE NoFiles :
                r \in {Resolve(existing, d) : existing \in {ExistingDirs(store)}}} : TRUE

HashStates == {ABSENT, INVALID, NOKEY, UNDECODABLE} \cup Digests
ZipStates == {ABSENT} \cup Contents
FileStates == [hash : HashStates, elm : BOOLEAN, zip : ZipStates]

(***************************************************************************)
(* HTTP requests and responses.                                            *)
(***************************************************************************)
DecimalTokens == <<"0", "1", "2", "3", "4", "5", "6", "7", "8", "9">>
\* str(n) and int(text) for one digit
IntToken(n) == DecimalTokens[n + 1]
IsDigits(seg) == Len(seg) = 1 /\ IndexFrom(DecimalTokens, seg[1], 1) > 0
ToInt(seg) == IndexFrom(DecimalTokens, seg[1], 1) - 1

Seg(tok) == <<tok>>
Get(path) == [method |-> "GET", path |-> path]

EndpointPath(author, name, version) ==
  <<Seg("packages"), author, name, version, Seg("endpoint.json")>>
ZipPath(author, name, version) ==
  <<Seg("packages"), author, name, version, Seg("package.zip")>>
SincePath(n) == <<Seg("all-packages"), Seg("since"), Seg(IntToken(n))>>

Response(code) ==
  [code |-> code, error |-> "", list |-> <<>>, url |-> <<>>, hash |-> "", bytes |-> ""]

\* _error_response: a JSON object with the single field error
error_response(code, message) == [Response(code) EXCEPT !.error = message]

MSG_PENDING == "has not been downloaded yet"
MSG_FAILED_ENDPOINT == "failed to download and is not available"
MSG_FAILED_ZIP == "failed to download"
MSG_IGNORED == "is not available on this mirror"

\* _serve_all_packages
serve_all_packages(catalog) ==
  IF ~catalog THEN error_response(404, "all-packages not found")
  ELSE [Response(200) EXCEPT !.bytes = "catalog"]

\* a variant that drops the first n entries instead of the last n
serve_all_packages_since_tail(path, packages) ==
  IF ~(Len(path) = 3 /\ IsDigits(path[3]))
    THEN error_response(400, "Invalid since parameter")
  ELSE LET n == ToInt(path[3])
           total == Len(packages)
       IN IF n >= total THEN Response(200)
          ELSE [Response(200) EXCEPT !.list = IdsOf(SubSeq(packages, n + 1, total))]

\* _serve_all_packages_since
serve_all_packages_since(path, packages) ==
  IF ~(Len(path) = 3 /\ IsDigits(path[3]))
    THEN error_response(400, "Invalid since parameter")
  ELSE LET n == ToInt(path[3])
           total == Len(packages)
       IN IF n >= total THEN Response(200)
          ELSE [Response(200) EXCEPT !.list = IdsOf(SubSeq(packages, 1, total - n))]

\* a variant without the branch for STATUS_IGNORED
serve_endpoint_json_no_ignored(path, packages, store) ==
  IF Len(path) /= 5 THEN error_response(400, "Invalid endpoint path")
  ELSE LET author == path[2]
           name == path[3]
           version == path[4]
           package_id == RenderId(author, name, version)
           status == get_package_status(packages, package_id)
           hash_data == FilesAt(store, <<Seg("packages"), author, name, version>>).hash
       IN IF status = STATUS_PENDING THEN error_response(503, MSG_PENDING)
          ELSE IF status = STATUS_FAILED THEN error_response(503, MSG_FAILED_ENDPOINT)
          ELSE IF hash_data = ABSENT THEN error_response(404, "Package hash not found")
          ELSE IF hash_data \in {INVALID, NOKEY, UNDECODABLE} THEN Response(500)
          ELSE [Response(200) EXCEPT !.url = ZipPath(author, name, version),
                                     !.hash = hash_data]

\* _serve_endpoint_json
serve_endpoint_json(path, packages, store) ==
  IF Len(path) /= 5 THEN error_response(400, "Invalid endpoint path")
  ELSE LET author == path[2]
           name == path[3]
           version == path[4]
           package_id == RenderId(author, name, version)
           status == get_package_status(packages, package_id)
           hash_data == FilesAt(store, <<Seg("packages"), author, name, version>>).hash
       IN IF status = STATUS_PENDING THEN error_response(503, MSG_PENDING)
          ELSE IF status = STATUS_FAILED THEN error_response(503, MSG_FAILED_ENDPOINT)
          ELSE IF status = STATUS_IGNORED THEN error_response(503, MSG_IGNORED)
          ELSE IF hash_data = ABSENT THEN error_response(404, "Package hash not found")
          \* json.load or hash_data["hash"] raises: the handler ends in an exception
          ELSE IF hash_data \in {INVALID, NOKEY, UNDECODABLE} THEN Response(500)
          ELSE [Response(200) EXCEPT !.url = ZipPath(author, name, version),
                                     !.hash = hash_data]

\* the bytes of the file a path below packages/ names, ABSENT when it is no file
FileBytes(path, store) ==
  LET f == FilesAt(store, SubSeq(path, 1, Len(path) - 1))
      leaf == path[Len(path)]
  IN IF Len(path) < 2 THEN ABSENT
     ELSE IF leaf = Seg("package.zip") THEN f.zip
     ELSE IF leaf = Seg("hash.json") THEN f.hash
     ELSE IF leaf = Seg("elm.json") /\ f.elm THEN "elm"
     ELSE ABSENT

\* ".." in path
HasDotDot(path) == \E k \in 1..Len(path) : ".." \in Range(path[k])

\* a variant that checks the status of package.zip for STATUS_PENDING only
serve_static_file_pending_only(path, packages, store) ==
  IF HasDotDot(path) THEN error_response(400, "Invalid path")
  ELSE IF FileBytes(path, store) = ABSENT THEN error_response(404, "File not found")
  ELSE LET checked == path[Len(path)] = Seg("package.zip") /\ Len(path) = 5
           status == IF checked
                       THEN get_package_status(packages,
                                               RenderId(path[2], path[3], path[4]))
                       ELSE None
       IN IF status = STATUS_PENDING THEN error_response(503, MSG_PENDING)
          ELSE [Response(200) EXCEPT !.bytes = FileBytes(path, store)]

\* _serve_static_file
serve_static_file(path, packages, store) ==
  IF HasDotDot(path) THEN error_response(400, "Invalid path")
  ELSE IF FileBytes(path, store) = ABSENT THEN error_response(404, "File not found")
  ELSE LET checked == path[Len(path)] = Seg("package.zip") /\ Len(path) = 5
           status == IF checked
                       THEN get_package_status(packages,
                                               RenderId(path[2], path[3], path[4]))
                       ELSE None
       IN IF status = STATUS_PENDING THEN error_response(503, MSG_PENDING)
          ELSE IF status = STATUS_FAILED THEN error_response(503, MSG_FAILED_ZIP)
          ELSE IF status = STATUS_IGNORED THEN error_response(503, MSG_IGNORED)
          ELSE [Response(200) EXCEPT !.bytes = FileBytes(path, store)]

\* ElmMirrorApp.__call__
Call(req, packages, store, catalog) ==
  LET path == req.path
  IN IF req.method /= "GET" THEN error_response(405, "Method Not Allowed")
     ELSE IF path = <<Seg("all-packages")>> THEN serve_all_packages(catalog)
     ELSE IF Len(path) >= 3 /\ SubSeq(path, 1, 2) = <<Seg("all-packages"), Seg("since")>>
       THEN serve_all_packages_since(path, packages)
     ELSE IF Len(path) >= 2 /\ path[1] = Seg("packages")
             /\ path[Len(path)] = Seg("endpoint.json")
       THEN serve_endpoint_json(path, packages, store)
     ELSE IF Len(path) >= 2 /\ path[1] = Seg("packages")
       THEN serve_static_file(path, packages, store)
     ELSE error_response(404, "Not Found")

(***************************************************************************)
(* The verification pass.                                                  *)
(***************************************************************************)
\* the check of one entry of success_packages: "" when it passes, "raise"
\* when parse_package_id, json.load or hash_data["hash"] raises an error the
\* loop does not catch, else the error collected for it
verify_package(package_id, store) ==
  LET p == parse_package_id(package_id)
      f == FilesAt(store, PackageDir(p.author, p.name, p.version))
  IN IF ~p.ok THEN "raise"
     ELSE IF f.zip = ABSENT THEN "package.zip missing"
     ELSE IF f.hash = ABSENT THEN "hash.json missing"
     ELSE IF f.hash \in {INVALID, NOKEY} THEN "invalid hash.json"
     ELSE IF f.hash = UNDECODABLE THEN "raise"
     ELSE IF compute_sha1(f.zip) /= f.hash THEN "hash mismatch"
     ELSE IF ~f.elm THEN "elm.json missing"
     ELSE ""

\* the loop over success_packages: the errors collected, in order
RECURSIVE verify_loop(_, _, _)
verify_loop(packages, store, errors) ==
  IF packages = <<>> THEN [raised |-> FALSE, errors |-> errors]
  ELSE LET pkg == Head(packages)
           e == verify_package(pkg.id, store)
       IN IF pkg.status /= STATUS_SUCCESS THEN verify_loop(Tail(packages), store, errors)
          ELSE IF e = "raise" THEN [raised |-> TRUE, errors |-> errors]
          ELSE IF e = "" THEN verify_loop(Tail(packages), store, errors)
          ELSE verify_loop(Tail(packages), store,
                           Append(errors, [id |-> pkg.id, error |-> e]))

\* run_verify: returned is its boolean result
run_verify(packages, store) ==
  IF packages = <<>> THEN [done |-> TRUE, raised |-> FALSE, returned |-> TRUE, errors |-> <<>>]
  ELSE LET r == verify_loop(packages, store, <<>>)
       IN [done |-> TRUE, raised |-> r.raised,
           returned |-> ~r.raised /\ r.errors = <<>>, errors |-> r.errors]

NotVerified == [done |-> FALSE, raised |-> FALSE, returned |-> FALSE, errors |-> <<>>]

(***************************************************************************)
(* The discovery and filter loops of run_sync.                             *)
(***************************************************************************)
\* a variant that does not look the identifier up in existing_ids
RECURSIVE discover_every(_, _, _, _)
discover_every(remote, packages, existing_ids, new) ==
  IF remote = <<>> THEN [packages |-> packages, new_packages |-> new]
  ELSE discover_every(Tail(remote),
                      <<Entry(Head(remote), STATUS_PENDING)>> \o packages,
                      existing_ids \cup {Head(remote)},
                      Append(new, Head(remote)))

\* for pkg_id in remote_packages: insert the unknown ones at index 0
RECURSIVE discover(_, _, _, _)
discover(remote, packages, existing_ids, new) ==
  IF remote = <<>> THEN [packages |-> packages, new_packages |-> new]
  ELSE LET pkg_id == Head(remote)
       IN IF pkg_id \notin existing_ids
            THEN discover(Tail(remote),
                          <<Entry(pkg_id, STATUS_PENDING)>> \o packages,
                          existing_ids \cup {pkg_id},
                          Append(new, pkg_id))
            ELSE discover(Tail(remote), packages, existing_ids, new)

\* a variant that compares with STATUS_PENDING
RECURSIVE failed_packages_pending(_)
failed_packages_pending(packages) ==
  IF packages = <<>> THEN <<>>
  ELSE IF Head(packages).status = STATUS_PENDING
    THEN <<Head(packages).id>> \o failed_packages_pending(Tail(packages))
  ELSE failed_packages_pending(Tail(packages))

\* [pkg["id"] for pkg in registry["packages"] if pkg["status"] == STATUS_FAILED]
RECURSIVE failed_packages(_)
failed_packages(packages) ==
  IF packages = <<>> THEN <<>>
  ELSE IF Head(packages).status = STATUS_FAILED
    THEN <<Head(packages).id>> \o failed_packages(Tail(packages))
  ELSE failed_packages(Tail(packages))

\* a variant that puts the retries first
work_list_retries_first(new, failed) == failed \o new

\* packages_to_sync = new_packages + failed_packages
work_list(new, failed) == new \o failed

\* a variant that leaves the status of the ids it drops
RECURSIVE filter_packages_unmarked(_, _, _, _)
filter_packages_unmarked(to_sync, package_list, packages, filtered) ==
  IF to_sync = <<>> THEN [raised |-> FALSE, filtered |-> filtered, packages |-> packages]
  ELSE LET d == should_sync_package(Head(to_sync), package_list)
       IN IF d = "raise" THEN [raised |-> TRUE, filtered |-> filtered, packages |-> packages]
          ELSE filter_packages_unmarked(Tail(to_sync), package_list, packages,
                                        IF d = "yes" THEN Append(filtered, Head(to_sync))
                                        ELSE filtered)

\* the filter by package list: the ids kept, the registry with the others
\* marked ignored, and whether should_sync_package raised
RECURSIVE filter_packages(_, _, _, _)
filter_packages(to_sync, package_list, packages, filtered) ==
  IF to_sync = <<>> THEN [raised |-> FALSE, filtered |-> filtered, packages |-> packages]
  ELSE LET pkg_id == Head(to_sync)
           d == should_sync_package(pkg_id, package_list)
       IN IF d = "raise" THEN [raised |-> TRUE, filtered |-> filtered, packages |-> packages]
          ELSE IF d = "yes"
            THEN filter_packages(Tail(to_sync), package_list, packages,
                                 Append(filtered, pkg_id))
          ELSE filter_packages(Tail(to_sync), package_list,
                               set_package_status(packages, pkg_id, STATUS_IGNORED),
                               filtered)

RemoteLists == SeqsUpTo(Ids, MaxRemoteLen)

(***************************************************************************)
(* State.                                                                  *)
(***************************************************************************)
VARIABLES
  registry_json,    \* the packages of registry.json (<<>> when the file is absent)
  catalog,          \* whether the file all-packages exists
  files,            \* the content store
  app_registry,     \* ElmMirrorApp.registry["packages"]
  pc,               \* where the background sync loop stands
  runs,             \* sync runs started
  registry,         \* run_sync's registry["packages"]
  package_list,     \* run_sync's package_list
  remote_packages,  \* run_sync's remote_packages
  new_packages,     \* run_sync's new_packages
  packages_to_sync, \* run_sync's packages_to_sync
  i,                \* run_sync's loop index
  success_count,
  fail_count,
  expected_hash,    \* sync_package's expected_hash
  start_registry,   \* history: the registry the run loaded
  candidates,       \* history: new_packages + failed_packages, before the filter
  attempted,        \* history: the ids sync_package fetched the endpoint of
  resp,             \* the response to the latest request
  verify,           \* the outcome of the latest run_verify
  outcomes,         \* history: how each sync run that is over ended
  registry_file,    \* the text of registry.json and of registry.json.tmp
  saver,            \* a call of save_registry, step by step
  registry_lock,    \* the thread that holds ElmMirrorApp.registry_lock
  threads,          \* the threads that use ElmMirrorApp.registry
  call              \* history: a call of set_package_status and what followed it

vars == <<registry_json, catalog, files, app_registry, pc, runs, registry,
          package_list, remote_packages, new_packages, packages_to_sync, i,
          success_count, fail_count, expected_hash, start_registry, candidates,
          attempted, resp, verify, outcomes, registry_file, saver, registry_lock,
          threads, call>>

\* the state of the step-by-step views of save_registry, of the lock and of
\* set_package_status
aux == <<registry_file, saver, registry_lock, threads, call>>

disk == <<registry_json, catalog, files>>
locals == <<registry, package_list, remote_packages, new_packages, packages_to_sync,
            i, success_count, fail_count, expected_hash, start_registry, candidates,
            attempted>>

\* no request has been answered since the latest step of the sync run
NoResponse == [req |-> [method |-> "", path |-> <<>>], out |-> Response(0)]

\* run_sync is not running
NoLocals ==
  /\ registry = <<>>
  /\ package_list = NoPolicy
  /\ remote_packages = <<>>
  /\ new_packages = <<>>
  /\ packages_to_sync = <<>>
  /\ i = 0
  /\ success_count = 0
  /\ fail_count = 0
  /\ expected_hash = ""
  /\ start_registry = <<>>
  /\ candidates = <<>>
  /\ attempted = {}

\* run_sync returns or raises: its locals are gone
DropLocals ==
  /\ registry' = <<>>
  /\ package_list' = NoPolicy
  /\ remote_packages' = <<>>
  /\ new_packages' = <<>>
  /\ packages_to_sync' = <<>>
  /\ i' = 0
  /\ success_count' = 0
  /\ fail_count' = 0
  /\ expected_hash' = ""
  /\ start_registry' = <<>>
  /\ candidates' = <<>>
  /\ attempted' = {}

\* no save_registry is followed step by step
NotLoaded == [ok |-> FALSE, packages |-> <<>>]
SaverIdle == [pc |-> "idle", registry |-> <<>>, previous |-> NoFile,
              crashed_at |-> "", loaded |-> NotLoaded]
NoRegistryFile == [path \in {registry_path, temp_path} |-> NoFile]

\* no thread is followed step by step
ThreadIds == {"server", "sync"}
ThreadIdle == [pc |-> "idle", op |-> "", status |-> None, packages |-> <<>>]
FREE == "free"

\* no call of set_package_status is followed
NoCall == [op |-> "", package_id |-> <<>>, status |-> "", before |-> <<>>,
           once |-> <<>>, got |-> ""]

AuxIdle ==
  /\ registry_file = NoRegistryFile
  /\ saver = SaverIdle
  /\ registry_lock = FREE
  /\ threads = [t \in ThreadIds |-> ThreadIdle]
  /\ call = NoCall

\* how a sync run ended
COMPLETED == "completed"
ERROR == "error"
INTERRUPTED == "interrupted"

\* a variant in which the error ends the background thread
AfterErrorThreadEnds == "ended"
\* sync_loop's "except Exception": the error is printed and the loop sleeps again
AfterError == "sleep"

\* the mirror directory is empty and the server has just been constructed
Init ==
  /\ outcomes = <<>>
  /\ AuxIdle
  /\ registry_json = <<>>
  /\ catalog = FALSE
  /\ files = EmptyStore
  /\ app_registry = registry_json
  /\ pc = "sleep"
  /\ runs = 0
  /\ NoLocals
  /\ resp = NoResponse
  /\ verify = NotVerified

(***************************************************************************)
(* The sync run.  sync_loop sleeps, then calls run_sync with the package   *)
(* list the process was started with, then app.reload_registry(); an       *)
(* exception of run_sync is caught and the loop sleeps again.              *)
(***************************************************************************)
\* run_sync up to packages_to_sync = new_packages + failed_packages, for an
\* answer of the upstream out of remotes and a package list out of policies
SyncStartFrom(remotes, policies) ==
  /\ pc = "sleep"
  /\ runs < MaxRuns
  /\ \E remote \in remotes, pl \in policies :
       LET loaded == registry_json
           d == discover(remote, loaded, Range(IdsOf(loaded)), <<>>)
           to_sync == work_list(d.new_packages, failed_packages(d.packages))
       IN /\ registry' = d.packages
          /\ package_list' = pl
          /\ remote_packages' = remote
          /\ new_packages' = d.new_packages
          /\ packages_to_sync' = to_sync
          /\ candidates' = to_sync
          /\ start_registry' = loaded
  /\ catalog' = TRUE
  /\ runs' = runs + 1
  /\ pc' = "filter"
  /\ resp' = NoResponse
  /\ UNCHANGED <<registry_json, files, app_registry, i, success_count, fail_count,
                 expected_hash, attempted, verify, outcomes, aux>>

SyncStart == SyncStartFrom(RemoteLists, Policies)

\* fetch_all_packages_since or fetch_all_packages raises
SyncFetchFails ==
  /\ pc = "sleep"
  /\ runs < MaxRuns
  /\ runs' = runs + 1
  /\ pc' = AfterError
  /\ outcomes' = Append(outcomes, ERROR)
  /\ resp' = NoResponse
  /\ UNCHANGED <<disk, app_registry, locals, verify, aux>>

\* the loop "for i, pkg_id in enumerate(packages_to_sync, 1)" starts, or is over
EnterLoop(to_sync) ==
  /\ i' = 1
  /\ pc' = IF to_sync = <<>> THEN "final_save" ELSE "package"

\* run_sync's filter by package list
SyncFilter ==
  /\ pc = "filter"
  /\ LET r == filter_packages(packages_to_sync, package_list, registry, <<>>)
         raised == package_list.configured /\ r.raised
     IN /\ IF ~package_list.configured
             THEN /\ EnterLoop(packages_to_sync)
                  /\ UNCHANGED <<registry, package_list, remote_packages, new_packages,
                                 packages_to_sync, success_count, fail_count,
                                 expected_hash, start_registry, candidates, attempted>>
           ELSE IF r.raised
             THEN /\ pc' = AfterError
                  /\ DropLocals
           ELSE /\ registry' = r.packages
                /\ packages_to_sync' = r.filtered
                /\ EnterLoop(r.filtered)
                /\ UNCHANGED <<package_list, remote_packages, new_packages,
                               success_count, fail_count, expected_hash, start_registry,
                               candidates, attempted>>
        /\ outcomes' = IF raised THEN Append(outcomes, ERROR) ELSE outcomes
  /\ resp' = NoResponse
  /\ UNCHANGED <<disk, app_registry, runs, verify, aux>>

pkg_id == packages_to_sync[i]

\* a variant without the except clause: a failure leaves the loop of run_sync
FinishPackageUncaught(ok) ==
  /\ registry' = IF ok THEN set_package_status(registry, pkg_id, STATUS_SUCCESS)
                 ELSE registry
  /\ success_count' = IF ok THEN success_count + 1 ELSE success_count
  /\ fail_count' = fail_count
  /\ registry_json' = IF ok /\ i % SavePeriod = 0 THEN registry' ELSE registry_json
  /\ i' = i + 1
  /\ pc' = IF ~ok THEN "sleep"
           ELSE IF i = Len(packages_to_sync) THEN "final_save" ELSE "package"
  /\ outcomes' = IF ok THEN outcomes ELSE Append(outcomes, ERROR)
  /\ expected_hash' = ""
  /\ resp' = NoResponse
  /\ UNCHANGED <<catalog, app_registry, runs, package_list, remote_packages,
                 new_packages, packages_to_sync, start_registry, candidates, verify,
                 aux>>

\* sync_package returns: the status is set, run_sync counts, saves every
\* SavePeriod packages and goes on with the next package
FinishPackage(ok) ==
  LET packages == set_package_status(registry, pkg_id,
                                     IF ok THEN STATUS_SUCCESS ELSE STATUS_FAILED)
  IN /\ registry' = packages
     /\ success_count' = IF ok THEN success_count + 1 ELSE success_count
     /\ fail_count' = IF ok THEN fail_count ELSE fail_count + 1
     /\ registry_json' = IF i % SavePeriod = 0 THEN packages ELSE registry_json
     /\ i' = i + 1
     /\ pc' = IF i = Len(packages_to_sync) THEN "final_save" ELSE "package"
     /\ expected_hash' = ""
     /\ resp' = NoResponse
     /\ UNCHANGED <<catalog, app_registry, runs, package_list, remote_packages,
                    new_packages, packages_to_sync, start_registry, candidates, verify,
                    outcomes, aux>>

\* sync_package: parse_package_id raises outside the try, run_sync raises
SyncPackageRaises ==
  /\ pc = "package"
  /\ ~parse_package_id(pkg_id).ok
  /\ pc' = AfterError
  /\ outcomes' = Append(outcomes, ERROR)
  /\ DropLocals
  /\ resp' = NoResponse
  /\ UNCHANGED <<disk, app_registry, runs, verify, aux>>

\* mkdir or fetch_package_endpoint raises
SyncEndpointFails ==
  /\ pc = "package"
  /\ parse_package_id(pkg_id).ok
  /\ attempted' = attempted \cup {pkg_id}
  /\ FinishPackage(FALSE)
  /\ UNCHANGED files

\* the endpoint is fetched and hash.json written
SyncEndpoint ==
  /\ pc = "package"
  /\ parse_package_id(pkg_id).ok
  /\ \E h \in Digests :
       /\ expected_hash' = h
       /\ files' = [files EXCEPT ![DirOfId(pkg_id)].hash = h]
  /\ attempted' = attempted \cup {pkg_id}
  /\ pc' = "elm_json"
  /\ resp' = NoResponse
  /\ UNCHANGED <<registry_json, catalog, app_registry, runs, registry, package_list,
                 remote_packages, new_packages, packages_to_sync, i, success_count,
                 fail_count, start_registry, candidates, verify, outcomes, aux>>

\* fetch_package_elm_json raises
SyncElmJsonFails ==
  /\ pc = "elm_json"
  /\ FinishPackage(FALSE)
  /\ UNCHANGED <<files, attempted>>

\* elm.json is fetched and written
SyncElmJson ==
  /\ pc = "elm_json"
  /\ files' = [files EXCEPT ![DirOfId(pkg_id)].elm = TRUE]
  /\ pc' = "package_zip"
  /\ resp' = NoResponse
  /\ UNCHANGED <<registry_json, catalog, app_registry, runs, locals, verify, outcomes, aux>>

\* download_package_zip raises: package.zip is as it was
SyncZipFails ==
  /\ pc = "package_zip"
  /\ FinishPackage(FALSE)
  /\ UNCHANGED <<files, attempted>>

\* download_package_zip: the archive is written to the temporary file and renamed
SyncZip ==
  /\ pc = "package_zip"
  /\ \E data \in Contents : files' = [files EXCEPT ![DirOfId(pkg_id)].zip = data]
  /\ pc' = "verify_hash"
  /\ resp' = NoResponse
  /\ UNCHANGED <<registry_json, catalog, app_registry, runs, locals, verify, outcomes, aux>>

\* actual_hash = compute_sha1(zip_path), compared with expected_hash
hash_matches == compute_sha1(files[DirOfId(pkg_id)].zip) = expected_hash

SyncVerifyHash ==
  /\ pc = "verify_hash"
  /\ FinishPackage(hash_matches)
  /\ UNCHANGED <<files, attempted>>

\* run_sync's final save_registry; run_sync returns
SyncFinalSave ==
  /\ pc = "final_save"
  /\ registry_json' = registry
  /\ pc' = "reload"
  /\ outcomes' = Append(outcomes, COMPLETED)
  /\ resp' = NoResponse
  /\ UNCHANGED <<catalog, files, app_registry, runs, locals, verify, aux>>

\* a variant that keeps the registry the application has
reload_registry_keep(current, persisted) == current

\* ElmMirrorApp.reload_registry: self.registry = load_registry(self.mirror_dir)
reload_registry(current, persisted) == persisted

\* run_sync has returned: app.reload_registry()
SyncReload ==
  /\ pc = "reload"
  /\ app_registry' = reload_registry(app_registry, registry_json)
  /\ pc' = "sleep"
  /\ DropLocals
  /\ resp' = NoResponse
  /\ UNCHANGED <<disk, runs, verify, outcomes, aux>>

(***************************************************************************)
(* The server and the verify command.                                      *)
(***************************************************************************)
HttpGet(req) ==
  /\ resp' = [req |-> req, out |-> Call(req, app_registry, files, catalog)]
  /\ UNCHANGED <<disk, app_registry, pc, runs, locals, verify, outcomes, aux>>

RunVerify ==
  /\ verify' = run_verify(registry_json, files)
  /\ resp' = NoResponse
  /\ UNCHANGED <<disk, app_registry, pc, runs, locals, outcomes, aux>>

\* the versions and authors a request names
PackageRequests ==
  {Get(EndpointPath(Seg("a"), Seg("b"), Seg(v))) : v \in {"1", "2"}}
    \cup {Get(ZipPath(Seg("a"), Seg("b"), Seg(v))) : v \in {"1", "2"}}

Requests ==
  PackageRequests
    \cup {Get(SincePath(n)) : n \in 0..MaxSince}
    \cup {Get(<<Seg("all-packages")>>),
          Get(<<Seg("all-packages"), Seg("since"), Seg("x")>>),
          Get(<<Seg("packages"), Seg("a"), Seg("b"), Seg("1"), Seg("hash.json")>>),
          Get(<<Seg("packages"), Seg("a"), Seg("b"), Seg("endpoint.json")>>),
          Get(<<Seg("packages"), Seg(".."), Seg("b"), Seg("1"), Seg("package.zip")>>),
          Get(<<Seg("packages"), Seg(".."), Seg(".."), Seg("x"), Seg("hash.json")>>),
          Get(EndpointPath(Seg(".."), Seg(".."), Seg("x"))),
          Get(<<Seg("other")>>),
          [method |-> "POST", path |-> <<Seg("all-packages")>>]}

\* the requests followed while the sync loop runs
LiveRequests == PackageRequests \cup {Get(<<Seg("all-packages")>>)}

Serve == \E req \in LiveRequests : HttpGet(req)

Next ==
  \/ SyncStart
  \/ SyncFetchFails
  \/ SyncFilter
  \/ SyncPackageRaises
  \/ SyncEndpointFails
  \/ SyncEndpoint
  \/ SyncElmJsonFails
  \/ SyncElmJson
  \/ SyncZipFails
  \/ SyncZip
  \/ SyncVerifyHash
  \/ SyncFinalSave
  \/ SyncReload
  \/ Serve

Spec == Init /\ [][Next]_vars

\* The background loop with fewer answers of the upstream and fewer package
\* lists, and with the catalog as the one request.
LoopRemoteLists == {<<>>, <<P1>>, <<BAD>>, <<P1, BAD>>}
LoopPolicies == {NoPolicy, Policy({P1})}

SyncStartLoop == SyncStartFrom(LoopRemoteLists, LoopPolicies)

ServeCatalog == HttpGet(Get(<<Seg("all-packages")>>))

\* a step of the thread of sync_loop
SyncStepLoop ==
  \/ SyncStartLoop
  \/ SyncFetchFails
  \/ SyncFilter
  \/ SyncPackageRaises
  \/ SyncEndpointFails
  \/ SyncEndpoint
  \/ SyncElmJsonFails
  \/ SyncElmJson
  \/ SyncZipFails
  \/ SyncZip
  \/ SyncVerifyHash
  \/ SyncFinalSave
  \/ SyncReload

NextLoop ==
  \/ SyncStartLoop
  \/ SyncFetchFails
  \/ SyncFilter
  \/ SyncPackageRaises
  \/ SyncEndpointFails
  \/ SyncEndpoint
  \/ SyncElmJsonFails
  \/ SyncElmJson
  \/ SyncZipFails
  \/ SyncZip
  \/ SyncVerifyHash
  \/ SyncFinalSave
  \/ SyncReload
  \/ ServeCatalog

\* time.sleep(interval) returns, every fetch returns or raises within its
\* timeout, and the thread is scheduled: the loop takes its next step
SpecFair == Init /\ [][NextLoop]_vars /\ WF_vars(SyncStepLoop)

(***************************************************************************)
(* The server and the verify command over any registry with one entry per  *)
(* identifier and any state of the content store.                          *)
(***************************************************************************)
StoredRegistries ==
  {r \in SeqsUpTo([id : GoodIds, status : Statuses], Cardinality(GoodIds)) :
     NoRepeat(IdsOf(r))}

InitStored ==
  /\ outcomes = <<>>
  /\ AuxIdle
  /\ registry_json \in StoredRegistries
  /\ catalog \in BOOLEAN
  /\ files \in [Dirs -> FileStates]
  \* run_sync writes all-packages before it saves a registry or a package file
  /\ ~catalog => (registry_json = <<>> /\ files = EmptyStore)
  /\ app_registry = registry_json
  /\ pc = "sleep"
  /\ runs = 0
  /\ NoLocals
  /\ resp = NoResponse
  /\ verify = NotVerified

ServeAny == \E req \in Requests : HttpGet(req)

\* neither operation changes what is stored: each stored state is asked once
Fresh == resp = NoResponse /\ ~verify.done

ServeStored == Fresh /\ ServeAny

VerifyStored == Fresh /\ RunVerify

NextStored == ServeStored \/ VerifyStored

SpecStored == InitStored /\ [][NextStored]_vars

(***************************************************************************)
(* The sync loop on a mirror that an interrupted run has left: run_sync    *)
(* saved the registry after a tenth package and was stopped before its     *)
(* final save, so registry.json holds entries that are pending or failed   *)
(* (the entries of the packages processed before the save are left out).   *)
(* The model follows the next run.                                         *)
(***************************************************************************)
ResumeRegistries ==
  {r \in StoredRegistries :
     /\ r /= <<>>
     /\ \A k \in 1..Len(r) : r[k].status \in {STATUS_PENDING, STATUS_FAILED}}

InitResume ==
  /\ AuxIdle
  /\ registry_json \in ResumeRegistries
  /\ catalog = TRUE
  /\ files = EmptyStore
  /\ app_registry = registry_json
  /\ pc = "sleep"
  /\ runs = MaxRuns - 1
  /\ outcomes = [n \in 1..(MaxRuns - 1) |-> INTERRUPTED]
  /\ NoLocals
  /\ resp = NoResponse
  /\ verify = NotVerified

SpecResume == InitResume /\ [][Next]_vars

(***************************************************************************)
(* save_registry step by step, with a crash of the process at any step     *)
(* and a load_registry after the crash or after the return.                *)
(***************************************************************************)
\* the sync loop and the server are not followed
Quiet ==
  /\ registry_json = <<>>
  /\ catalog = FALSE
  /\ files = EmptyStore
  /\ app_registry = <<>>
  /\ pc = "sleep"
  /\ runs = 0
  /\ NoLocals
  /\ resp = NoResponse
  /\ verify = NotVerified
  /\ outcomes = <<>>

main == <<registry_json, catalog, files, app_registry, pc, runs, locals, resp, verify,
          outcomes, call>>

\* registry.json is absent or holds what an earlier save wrote; registry.json.tmp
\* is absent or was left by a save that did not return
InitSave ==
  /\ Quiet
  /\ \E previous \in {NoFile} \cup {File(dump(r)) : r \in StoredRegistries},
        left \in {NoFile, File(<<OPEN>>)},
        new \in StoredRegistries :
       /\ registry_file = [path \in {registry_path, temp_path} |->
                             IF path = registry_path THEN previous ELSE left]
       /\ saver = [SaverIdle EXCEPT !.pc = "call", !.registry = new,
                                    !.previous = previous]
  /\ registry_lock = FREE
  /\ threads = [t \in ThreadIds |-> ThreadIdle]
  /\ call = NoCall

\* temp_path.replace(registry_path)
replace(dir, src, dst) ==
  IF src = dst THEN dir
  ELSE [path \in DOMAIN dir |->
          IF path = dst THEN dir[src] ELSE IF path = src THEN NoFile ELSE dir[path]]

\* open(temp_path, "w"): the file is created or cut to no text
SaveOpen ==
  /\ saver.pc = "call"
  /\ registry_file' = [registry_file EXCEPT ![temp_path] = File(<<>>)]
  /\ saver' = [saver EXCEPT !.pc = "write"]
  /\ UNCHANGED <<main, registry_lock, threads>>

\* json.dump: the next piece of the text reaches the file; the file is closed
\* after the last one
SaveWrite ==
  /\ saver.pc = "write"
  /\ LET text == dump(saver.registry)
         n == Len(registry_file[temp_path].text)
     IN /\ registry_file' =
             [registry_file EXCEPT ![temp_path] = File(SubSeq(text, 1, n + 1))]
        /\ saver' = [saver EXCEPT !.pc = IF n + 1 = Len(text) THEN "rename" ELSE "write"]
  /\ UNCHANGED <<main, registry_lock, threads>>

SaveRename ==
  /\ saver.pc = "rename"
  /\ registry_file' = replace(registry_file, temp_path, registry_path)
  /\ saver' = [saver EXCEPT !.pc = "returned"]
  /\ UNCHANGED <<main, registry_lock, threads>>

\* the process ends before the next step of save_registry, or after its return
SaveCrash ==
  /\ saver.pc \in {"call", "write", "rename", "returned"}
  /\ saver' = [saver EXCEPT !.pc = "crashed", !.crashed_at = saver.pc]
  /\ UNCHANGED <<main, registry_file, registry_lock, threads>>

\* load_registry, in the process that saved or in the next one
LoadRegistry ==
  /\ saver.pc \in {"crashed", "returned"}
  /\ saver' = [saver EXCEPT !.pc = "loaded", !.loaded = load_registry(registry_file)]
  /\ UNCHANGED <<main, registry_file, registry_lock, threads>>

NextSave == SaveOpen \/ SaveWrite \/ SaveRename \/ SaveCrash \/ LoadRegistry

SpecSave == InitSave /\ [][NextSave]_vars

(***************************************************************************)
(* ElmMirrorApp.registry_lock.  The server thread handles one request      *)
(* after the other; the thread of sync_loop calls reload_registry.  Each   *)
(* "with self.registry_lock" is an acquire, the statements of its body,    *)
(* and a release.                                                          *)
(***************************************************************************)
\* the handlers that use the registry
LockedHandlers == {"since", "endpoint", "package_zip"}

\* the server runs on some registry and registry.json holds some registry
InitLock ==
  /\ registry_json \in StoredRegistries
  /\ app_registry \in StoredRegistries
  /\ catalog = TRUE
  /\ files = EmptyStore
  /\ pc = "sleep"
  /\ runs = 0
  /\ NoLocals
  /\ resp = NoResponse
  /\ verify = NotVerified
  /\ outcomes = <<>>
  /\ AuxIdle

\* what the steps of the two threads leave alone, but for app_registry
rest == <<registry_json, catalog, files, pc, runs, locals, resp, verify, outcomes,
          registry_file, saver, call>>

\* a request arrives that is routed to a handler using the registry
ServerReceive ==
  /\ threads["server"].pc = "idle"
  /\ \E op \in LockedHandlers :
       threads' = [threads EXCEPT !["server"] = [ThreadIdle EXCEPT !.pc = "acquire",
                                                                  !.op = op]]
  /\ UNCHANGED <<rest, app_registry, registry_lock>>

\* run_sync has returned: sync_loop calls app.reload_registry()
ReloadCall ==
  /\ threads["sync"].pc = "idle"
  /\ threads' = [threads EXCEPT !["sync"] = [ThreadIdle EXCEPT !.pc = "acquire",
                                                                !.op = "reload"]]
  /\ UNCHANGED <<rest, app_registry, registry_lock>>

\* "with self.registry_lock:" is entered when no thread holds the lock
Acquire(t) ==
  /\ threads[t].pc = "acquire"
  /\ registry_lock = FREE
  /\ registry_lock' = t
  /\ threads' = [threads EXCEPT ![t].pc = IF threads[t].op = "reload" THEN "load"
                                          ELSE "read"]
  /\ UNCHANGED <<rest, app_registry>>

\* the handler reads self.registry: get_package_status, or .get("packages")
ReadRegistry ==
  /\ threads["server"].pc = "read"
  /\ threads' = [threads EXCEPT
                   !["server"].pc = "release",
                   !["server"].status =
                      IF threads["server"].op = "since" THEN None
                      ELSE get_package_status(app_registry, P1),
                   !["server"].packages =
                      IF threads["server"].op = "since" THEN app_registry ELSE <<>>]
  /\ UNCHANGED <<rest, app_registry, registry_lock>>

\* reload_registry: load_registry(self.mirror_dir) opens and reads registry.json
ReloadLoad ==
  /\ threads["sync"].pc = "load"
  /\ threads' = [threads EXCEPT !["sync"].pc = "assign",
                                  !["sync"].packages = registry_json]
  /\ UNCHANGED <<rest, app_registry, registry_lock>>

\* reload_registry: self.registry = the registry that was loaded
ReloadAssign ==
  /\ threads["sync"].pc = "assign"
  /\ app_registry' = reload_registry(app_registry, threads["sync"].packages)
  /\ threads' = [threads EXCEPT !["sync"].pc = "release"]
  /\ UNCHANGED <<rest, registry_lock>>

\* the with block is left; the handlers of endpoint.json and package.zip then
\* read hash.json or package.zip
Release(t) ==
  /\ threads[t].pc = "release"
  /\ registry_lock' = FREE
  /\ threads' = [threads EXCEPT ![t].pc = IF threads[t].op \in {"endpoint", "package_zip"}
                                            THEN "file" ELSE "idle"]
  /\ UNCHANGED <<rest, app_registry>>

\* the file is read and the response is sent
ServerRespond ==
  /\ threads["server"].pc = "file"
  /\ threads' = [threads EXCEPT !["server"].pc = "idle"]
  /\ UNCHANGED <<rest, app_registry, registry_lock>>

AcquireLock == \E t \in ThreadIds : Acquire(t)
ReleaseLock == \E t \in ThreadIds : Release(t)

NextLock ==
  \/ ServerReceive
  \/ ReloadCall
  \/ AcquireLock
  \/ ReadRegistry
  \/ ReloadLoad
  \/ ReloadAssign
  \/ ReleaseLock
  \/ ServerRespond

SpecLock == InitLock /\ [][NextLock]_vars

(***************************************************************************)
(* Properties of the serving layer over stored states (SpecStored).        *)
(***************************************************************************)
Unavailable == {STATUS_PENDING, STATUS_FAILED, STATUS_IGNORED}

\* the request asks for <leaf> of a package: /packages/{author}/{name}/{version}/<leaf>
IsPackageRequest(req, leaf) ==
  /\ req.method = "GET"
  /\ Len(req.path) = 5
  /\ req.path[1] = Seg("packages")
  /\ req.path[5] = Seg(leaf)

\* author/name@version of a package request
RequestedId(req) == req.path[2] \o <<"/">> \o req.path[3] \o <<"@">> \o req.path[4]

\* the status the serving layer's registry holds for the requested package
ServedStatus == get_package_status(app_registry, RequestedId(resp.req))

\* the files of the requested package
RequestedFiles == FilesAt(files, SubSeq(resp.req.path, 1, 4))

\* the response is an error: a JSON object with the field error, and no data
IsErrorOnly(out) ==
  /\ out.error /= ""
  /\ out.url = <<>>
  /\ out.hash = ""
  /\ out.bytes = ""
  /\ out.list = <<>>

\* C1: a GET of endpoint.json for a package the serving layer's registry holds as
\* pending, failed or ignored is answered 503 with an error body and neither url
\* nor hash, whatever the files on disk.
C1_EndpointUnavailable ==
  (IsPackageRequest(resp.req, "endpoint.json") /\ ServedStatus \in Unavailable)
    => (resp.out.code = 503 /\ IsErrorOnly(resp.out))

\* C1: endpoint.json of an ignored package is asked while its hash.json and
\* package.zip are on disk, and 503 is answered
C1_Witness ==
  /\ IsPackageRequest(resp.req, "endpoint.json")
  /\ ServedStatus = STATUS_IGNORED
  /\ RequestedFiles.hash \in Digests
  /\ RequestedFiles.zip /= ABSENT
  /\ resp.out.code = 503
  /\ resp.out.error = MSG_IGNORED

EndpointMessage(status) ==
  IF status = STATUS_PENDING THEN MSG_PENDING
  ELSE IF status = STATUS_FAILED THEN MSG_FAILED_ENDPOINT
  ELSE MSG_IGNORED

IsSinceRequest(req) ==
  /\ req.method = "GET"
  /\ Len(req.path) = 3
  /\ req.path[1] = Seg("all-packages")
  /\ req.path[2] = Seg("since")
  /\ \E n \in 0..9 : req.path[3] = Seg(IntToken(n))

SinceN == CHOOSE n \in 0..9 : resp.req.path[3] = Seg(IntToken(n))

\* C4: GET /all-packages/since/{n} answers the identifiers of the first
\* max(total - n, 0) entries of the registry, in registry order.
C4_SinceFirstEntries ==
  IsSinceRequest(resp.req) =>
    LET total == Len(app_registry)
        k == IF total - SinceN > 0 THEN total - SinceN ELSE 0
    IN /\ resp.out.code = 200
       /\ resp.out.list = [j \in 1..k |-> app_registry[j].id]

\* C4: since/1 is asked of a registry of two entries and answers the first one
C4_Witness ==
  /\ IsSinceRequest(resp.req)
  /\ SinceN = 1
  /\ Len(app_registry) = 2
  /\ resp.out.code = 200
  /\ resp.out.list = <<app_registry[1].id>>

(***************************************************************************)
(* Properties of the verification pass (SpecStored).                       *)
(***************************************************************************)
\* the four conditions on the artifacts of a package
ArtifactsSound(package_id, store) ==
  LET f == store[<<Seg("packages"), Seg(package_id[1]), Seg(package_id[3]),
                   Seg(package_id[5])>>]
  IN /\ f.zip /= ABSENT
     /\ f.hash \in Digests
     /\ f.hash = compute_sha1(f.zip)
     /\ f.elm

\* the indices of the entries with status success whose artifacts are not sound
Unsound(packages, store) ==
  {k \in 1..Len(packages) :
     packages[k].status = STATUS_SUCCESS /\ ~ArtifactsSound(packages[k].id, store)}

\* C10: run_verify returns pass exactly when every entry with status success has
\* its package.zip, a parseable hash.json, a matching digest and its elm.json;
\* it collects one error for every other success entry, in registry order, and
\* none for an entry of another status; it changes neither the registry nor a file.
C10_VerifyPass ==
  [][(verify'.done /\ ~verify.done) =>
       LET bad == Unsound(registry_json, files)
       IN /\ verify'.returned = (bad = {})
          /\ ~verify'.raised
          /\ Len(verify'.errors) = Cardinality(bad)
          /\ \A j \in 1..Len(verify'.errors) :
               \E k \in bad :
                 /\ registry_json[k].id = verify'.errors[j].id
                 /\ Cardinality({m \in bad : m < k}) = j - 1
          /\ registry_json' = registry_json
          /\ files' = files
          /\ catalog' = catalog]_vars

(***************************************************************************)
(* Properties of the sync run and of serving during it (Spec).             *)
(***************************************************************************)
\* run_sync is between its discovery and its return
InRun == pc /= "sleep"

\* sync_package is at work on packages_to_sync[i]
InPackage == pc \in {"package", "elm_json", "package_zip", "verify_hash"}

\* the run has processed its work-list and made its final save
RunCompleted == pc = "reload"

\* the identifiers of the run's work-list that sync_package has not finished
Unfinished ==
  IF InPackage THEN {packages_to_sync[k] : k \in i..Len(packages_to_sync)} ELSE {}

\* C3 as stated: no request is answered 200 with the bytes of package.zip or with
\* the hash of endpoint.json for a package whose archive on disk has another
\* digest than hash.json records, or that the running sync has not verified yet.
C3_NeverServesUnverified ==
  (/\ resp.out.code = 200
   /\ \/ IsPackageRequest(resp.req, "package.zip")
      \/ IsPackageRequest(resp.req, "endpoint.json"))
    => /\ ~(/\ RequestedFiles.zip /= ABSENT
            /\ RequestedFiles.hash \in Digests
            /\ compute_sha1(RequestedFiles.zip) /= RequestedFiles.hash)
       /\ RequestedId(resp.req) \notin Unfinished

\* the identifiers of remote, in its order, that are not known, each once
RECURSIVE FirstNew(_, _)
FirstNew(remote, known) ==
  IF remote = <<>> THEN <<>>
  ELSE IF Head(remote) \in known THEN FirstNew(Tail(remote), known)
  ELSE <<Head(remote)>> \o FirstNew(Tail(remote), known \cup {Head(remote)})

\* C5 as stated: after the discovery step the registry lists the newly discovered
\* identifiers first, in the order of the upstream list, then the entries it had.
C5_NewFirstInUpstreamOrder ==
  pc = "filter" =>
    IdsOf(registry) =
      FirstNew(remote_packages, Range(IdsOf(start_registry))) \o IdsOf(start_registry)

\* the package list holds the identifier or its author/name
Matches(id, list) ==
  \/ id \in list
  \/ \E k \in 1..Len(id) : id[k] = "@" /\ SubSeq(id, 1, k - 1) \in list

\* C6: with a package list, a work-list identifier that matches it neither exactly
\* nor by package name is never attempted and has status ignored from the filter
\* to the end of the run, and one that matches stays in the work-list, is not
\* marked ignored and has been attempted when the run completes; without a
\* package list the run marks no identifier ignored.
C6_PolicyFilter ==
  (InRun /\ pc /= "filter") =>
    IF package_list.configured
      THEN \A k \in 1..Len(candidates) :
             LET id == candidates[k]
                 status == get_package_status(registry, id)
             IN IF Matches(id, package_list.list)
                  THEN /\ id \in Range(packages_to_sync)
                       /\ status /= STATUS_IGNORED
                       /\ RunCompleted =>
                            (id \in attempted /\ status \in {STATUS_SUCCESS, STATUS_FAILED})
                  ELSE /\ id \notin Range(packages_to_sync)
                       /\ id \notin attempted
                       /\ status = STATUS_IGNORED
                       /\ RunCompleted => get_package_status(registry_json, id) = STATUS_IGNORED
      ELSE /\ packages_to_sync = candidates
           /\ \A id \in Ids :
                get_package_status(registry, id) = STATUS_IGNORED
                  => get_package_status(start_registry, id) = STATUS_IGNORED

\* C6: a run with the package list ["a/b@1"] has completed: a/b@2 was not
\* attempted and is ignored, a/b@1 was downloaded and is success
C6_Witness ==
  /\ RunCompleted
  /\ package_list = Policy({P1})
  /\ candidates = <<P2, P1>>
  /\ attempted = {P1}
  /\ get_package_status(registry_json, P2) = STATUS_IGNORED
  /\ get_package_status(registry_json, P1) = STATUS_SUCCESS

\* the identifiers with a status at the start of the run
StartedAs(status) ==
  {start_registry[k].id : k \in {j \in 1..Len(start_registry) :
                                   start_registry[j].status = status}}

\* C7 as stated: a completed run has attempted every entry that was failed at its
\* start, and a run attempts only new and previously failed entries.
C7_AllFailedRetried ==
  /\ InRun => attempted \subseteq (Range(new_packages) \cup StartedAs(STATUS_FAILED))
  /\ RunCompleted => StartedAs(STATUS_FAILED) \subseteq attempted

\* C7, amended: a completed run has attempted every entry that was failed at its
\* start and that its package list allows; a failed entry the package list
\* excludes is not attempted and is marked ignored; a run attempts only new and
\* previously failed entries.
C7_AllowedFailedRetried ==
  /\ InRun => attempted \subseteq (Range(new_packages) \cup StartedAs(STATUS_FAILED))
  /\ RunCompleted =>
       \A id \in StartedAs(STATUS_FAILED) :
         IF ~package_list.configured \/ Matches(id, package_list.list)
           THEN id \in attempted
           ELSE id \notin attempted /\ get_package_status(registry, id) = STATUS_IGNORED

\* C7: of two versions of a package, a/b@1 was failed and a/b@2 success at the
\* start of a run that has completed: it attempted a/b@1 and nothing else
C7_Witness ==
  /\ RunCompleted
  /\ StartedAs(STATUS_FAILED) = {P1}
  /\ StartedAs(STATUS_SUCCESS) = {P2}
  /\ attempted = {P1}

\* C8: an entry that is success or ignored when a run starts is not attempted by
\* the run and keeps its status in the run's registry and in registry.json; no
\* step changes the status registry.json holds for a success or ignored entry.
C8_SettledKept ==
  /\ [](InRun =>
          \A id \in StartedAs(STATUS_SUCCESS) \cup StartedAs(STATUS_IGNORED) :
            /\ id \notin attempted
            /\ get_package_status(registry, id) = get_package_status(start_registry, id)
            /\ get_package_status(registry_json, id) = get_package_status(start_registry, id))
  /\ [][\A id \in Ids :
          get_package_status(registry_json, id) \in {STATUS_SUCCESS, STATUS_IGNORED}
            => get_package_status(registry_json', id) = get_package_status(registry_json, id)]_vars

\* C8: a run that started with a/b@2 ignored and a/b@1 failed, and that lists
\* both upstream, has completed with a/b@1 downloaded
C8_Witness ==
  /\ RunCompleted
  /\ StartedAs(STATUS_IGNORED) = {P2}
  /\ P2 \in Range(remote_packages)
  /\ attempted = {P1}
  /\ get_package_status(registry_json, P1) = STATUS_SUCCESS
  /\ get_package_status(registry_json, P2) = STATUS_IGNORED

\* C9: whenever sync_package ends for a well-formed identifier, by an error of a
\* fetch or a write or by the digest comparison, the identifier's status is failed
\* unless the digests were compared and matched, the run counts it, and the loop
\* goes on with the next package or, after the last one, with the final save.
C9_FailureContinues ==
  [][(InPackage /\ i' /= i /\ parse_package_id(packages_to_sync[i]).ok) =>
       LET id == packages_to_sync[i]
           matched == /\ pc = "verify_hash"
                      /\ compute_sha1(files[DirOfId(id)].zip) = expected_hash
       IN /\ get_package_status(registry', id) =
               IF matched THEN STATUS_SUCCESS ELSE STATUS_FAILED
          /\ fail_count' = IF matched THEN fail_count ELSE fail_count + 1
          /\ packages_to_sync' = packages_to_sync
          /\ i' = i + 1
          /\ pc' = IF i < Len(packages_to_sync) THEN "package" ELSE "final_save"]_vars

\* C9: a run has completed whose first package failed with a digest mismatch and
\* whose second package was then downloaded and verified
C9_Witness ==
  /\ RunCompleted
  /\ Len(packages_to_sync) = 2
  /\ get_package_status(registry, packages_to_sync[1]) = STATUS_FAILED
  /\ LET f == files[DirOfId(packages_to_sync[1])]
     IN f.zip /= ABSENT /\ f.hash \in Digests /\ compute_sha1(f.zip) /= f.hash
  /\ get_package_status(registry, packages_to_sync[2]) = STATUS_SUCCESS
  /\ fail_count = 1
  /\ success_count = 1

(***************************************************************************)
(* Properties of save_registry and load_registry (SpecSave).               *)
(***************************************************************************)
\* what load_registry returns for the registry file as it was before the save
PreviousValue ==
  IF saver.previous.exists THEN json_load(saver.previous.text)
  ELSE [ok |-> TRUE, packages |-> <<>>]

NewValue == [ok |-> TRUE, packages |-> saver.registry]

\* the rename of this save has happened
Renamed ==
  \/ saver.pc = "returned"
  \/ saver.crashed_at = "returned"
  \/ (saver.pc = "loaded" /\ saver.crashed_at = "")

\* C11: at every step of save_registry, and after a crash at any step, the
\* text under registry.json is the whole text of the previous save (or the
\* file is absent as before) or the whole text of the new registry, never a
\* part of one; the load after it returns the previous registry until the
\* rename has happened and the new registry from then on.
C11_SaveAtomic ==
  /\ registry_file[registry_path] =
       (IF Renamed THEN File(dump(saver.registry)) ELSE saver.previous)
  /\ load_registry(registry_file) \in {PreviousValue, NewValue}
  /\ saver.pc = "loaded" =>
       saver.loaded = (IF Renamed THEN NewValue ELSE PreviousValue)

\* a crash in the middle of the write: registry.json.tmp holds a part of the new
\* text, and the load returns the previous registry, which differs from the new
C11_Witness ==
  /\ saver.pc = "loaded"
  /\ saver.crashed_at = "write"
  /\ saver.previous.exists
  /\ Len(saver.registry) = 2
  /\ Len(registry_file[temp_path].text) = 2
  /\ saver.loaded = PreviousValue
  /\ saver.loaded.ok
  /\ saver.loaded.packages /= saver.registry
  /\ Len(saver.loaded.packages) = 1

(***************************************************************************)
(* Properties of the catalog snapshot (Spec).                              *)
(***************************************************************************)
IsCatalogRequest == resp.req = Get(<<Seg("all-packages")>>)

\* run_sync has returned at least once
SomeRunCompleted == COMPLETED \in Range(outcomes)

\* C12: GET /all-packages is answered 404 as long as no sync run has completed,
\* also while the first run is in progress and after a first run that ended in
\* an error, and 200 with the catalog snapshot once a run has completed.
C12_CatalogAfterCompletedRun ==
  IsCatalogRequest =>
    resp.out = (IF SomeRunCompleted THEN serve_all_packages(TRUE)
                ELSE serve_all_packages(FALSE))

(***************************************************************************)
(* Properties of the error handling of the server (SpecStored).            *)
(***************************************************************************)
ErrorCodes == {400, 404, 405, 503}

\* an error response is a JSON object with the single field error
IsJsonError(out) ==
  /\ out.code \in ErrorCodes
  /\ out.error /= ""
  /\ out = error_response(out.code, out.error)

\* C13: every request is answered with 200 or with a JSON error of status 400,
\* 404, 405 or 503; no handler ends in an exception, whatever hash.json holds.
C13_AlwaysAnswered ==
  resp /= NoResponse => (resp.out.code = 200 \/ IsJsonError(resp.out))

\* a GET below /packages/ whose path holds a segment ".."
IsTraversal ==
  /\ resp.req.method = "GET"
  /\ Len(resp.req.path) >= 2
  /\ resp.req.path[1] = Seg("packages")
  /\ HasDotDot(resp.req.path)

\* C14: a GET below /packages/ with a segment ".." is answered with an error,
\* and nothing of a file outside the mirror directory is in the answer,
\* whichever handler the path is routed to.
C14_TraversalRejected ==
  IsTraversal =>
    /\ IsJsonError(resp.out)
    /\ resp.out.hash = ""
    /\ resp.out.bytes = ""

(***************************************************************************)
(* Properties of the background loop (SpecFair, Spec).                     *)
(***************************************************************************)
\* run number n is over and ended in an error
RunFailed(n) == Len(outcomes) >= n /\ outcomes[n] = ERROR

\* C15: when a scheduled sync run has ended in an error, the background loop
\* goes on: a later run starts (for every run but the last one the model
\* follows), and in every state the server can answer a request.
C15_LoopSurvivesError ==
  /\ \A n \in 1..(MaxRuns - 1) : RunFailed(n) ~> (runs > n)
  /\ [](ENABLED ServeCatalog)

\* the first run ended in an error and the second one is downloading a package
C15_Witness ==
  /\ RunFailed(1)
  /\ runs = 2
  /\ pc = "package_zip"

\* the latest sync run completed, its reload_registry has returned and the
\* next run has not started
ReloadedAfterRun ==
  /\ pc = "sleep"
  /\ outcomes /= <<>>
  /\ outcomes[Len(outcomes)] = COMPLETED

\* C16: the registry of the application changes only by taking, whole, what
\* registry.json holds at that step, so it is always the value of a save or the
\* empty registry it started with; from the reload that follows a completed
\* run until the next run starts it is what that run's final save wrote.
C16_ReloadedFromPersisted ==
  /\ [][app_registry' /= app_registry => app_registry' = registry_json']_vars
  /\ [](app_registry /= <<>> => \E n \in 1..Len(outcomes) : outcomes[n] = COMPLETED)
  /\ [](ReloadedAfterRun => app_registry = registry_json)

\* two runs have completed and the second added an entry to what the first saved
C16_Witness ==
  /\ ReloadedAfterRun
  /\ outcomes = <<COMPLETED, COMPLETED>>
  /\ Len(app_registry) = 2
  /\ app_registry = registry_json
  /\ app_registry[1].status = STATUS_SUCCESS

(***************************************************************************)
(* Properties of the run after an interrupted run (SpecResume).            *)
(***************************************************************************)
\* the entries an interrupted run left unfinished in registry.json
LeftUnfinished == StartedAs(STATUS_PENDING) \cup StartedAs(STATUS_FAILED)

\* C17: a sync run that completes has attempted every entry that registry.json
\* held as pending or failed when the run started and that the run's package
\* list allows, so no such entry is pending after it.
C17_UnfinishedRetried ==
  RunCompleted =>
    \A id \in LeftUnfinished :
      (~package_list.configured \/ Matches(id, package_list.list))
        => /\ id \in attempted
           /\ get_package_status(registry, id) /= STATUS_PENDING

(***************************************************************************)
(* Properties of the order of the downloads and of the saves (Spec).       *)
(***************************************************************************)
\* sync_package starts the download of a package in this step
StartsDownload == attempted' /= attempted /\ attempted' /= {}

\* the work-list up to, and without, position k
Before(k) == {packages_to_sync[j] : j \in 1..(k - 1)}

\* C18: a download starts only at the head of the rest of the work-list, when
\* the downloads of all packages before it in the work-list are over (each
\* has its status success or failed), and a previously failed package is
\* started only when every new package of the work-list has been started.
C18_OneAtATimeInOrder ==
  [][StartsDownload =>
       /\ pc = "package"
       /\ attempted' = attempted \cup {packages_to_sync[i]}
       /\ packages_to_sync[i] \notin attempted
       /\ attempted = Before(i)
       /\ \A id \in Before(i) :
            get_package_status(registry, id) \in {STATUS_SUCCESS, STATUS_FAILED}
       /\ packages_to_sync[i] \in StartedAs(STATUS_FAILED) =>
            (Range(new_packages) \cap Range(packages_to_sync)) \subseteq attempted]_vars

\* a run with the new package a/b@2 and the retry a/b@1 has started the download
\* of the retry, after that of the new package
C18_Witness ==
  /\ pc = "elm_json"
  /\ new_packages = <<P2>>
  /\ StartedAs(STATUS_FAILED) = {P1}
  /\ packages_to_sync = <<P2, P1>>
  /\ i = 2
  /\ attempted = {P1, P2}

\* a step that ends run_sync, by its return or by an error
RunEnds == pc \in {"filter", "package", "elm_json", "package_zip", "verify_hash",
                   "final_save"}
           /\ pc' \in {"sleep", "reload"}

\* C19: the registry is saved after every tenth package of the work-list, and
\* however a run that has started ends, registry.json then holds the registry
\* the run had in memory.
C19_PersistedAtRunEnd ==
  [][/\ (InPackage /\ i' = i + 1 /\ i % SavePeriod = 0) => registry_json' = registry'
     /\ RunEnds => registry_json' = registry]_vars

(***************************************************************************)
(* Properties of the registry lock (SpecLock).                             *)
(***************************************************************************)
\* the thread is inside a "with self.registry_lock" block
InLockedBlock(t) == threads[t].pc \in {"read", "load", "assign", "release"}

\* the thread reads or replaces self.registry
UsesRegistry(t) == threads[t].pc \in {"read", "assign"}

\* the thread performs a file or network operation that can block
BlockingIO(t) == threads[t].pc \in {"load", "file"}

\* C20: a thread that reads or replaces the registry of the application holds
\* the registry lock, at most one thread holds it, and no thread holds it
\* while it performs a blocking file or network operation, the file read of
\* reload_registry included.
C20_LockDiscipline ==
  /\ \A t \in ThreadIds : UsesRegistry(t) => registry_lock = t
  /\ \A t \in ThreadIds : InLockedBlock(t) <=> registry_lock = t
  /\ Cardinality({t \in ThreadIds : InLockedBlock(t)}) <= 1
  /\ \A t \in ThreadIds : registry_lock = t => ~BlockingIO(t)

(***************************************************************************)
(* Sync runs alone, for an upstream that lists a/b@1 and a/b@1/: the two   *)
(* identifiers have the same package directory.                            *)
(***************************************************************************)
SharedDirRemoteLists == SeqsUpTo({P1, P1_SLASH, BAD}, MaxRemoteLen)

NextSharedDir ==
  \/ SyncStartFrom(SharedDirRemoteLists, LoopPolicies)
  \/ SyncFetchFails
  \/ SyncFilter
  \/ SyncPackageRaises
  \/ SyncEndpointFails
  \/ SyncEndpoint
  \/ SyncElmJsonFails
  \/ SyncElmJson
  \/ SyncZipFails
  \/ SyncZip
  \/ SyncVerifyHash
  \/ SyncFinalSave
  \/ SyncReload

SpecSharedDir == Init /\ [][NextSharedDir]_vars

(***************************************************************************)
(* Properties of the artifacts of success entries (SpecSharedDir).         *)
(***************************************************************************)
\* hash.json, elm.json and package.zip of the identifier are on disk and the
\* digest of package.zip is the one in hash.json
ArtifactsOnDisk(id) ==
  LET f == files[DirOfId(id)]
  IN /\ f.hash \in Digests
     /\ f.elm
     /\ f.zip \in Contents
     /\ compute_sha1(f.zip) = f.hash

SuccessHasArtifacts(packages) ==
  \A k \in 1..Len(packages) :
    packages[k].status = STATUS_SUCCESS => ArtifactsOnDisk(packages[k].id)

\* C21 as stated: in every state reached by sync runs alone, each entry with
\* status success, in the registry of the run, in registry.json and in the
\* registry of the server, has hash.json, elm.json and package.zip on disk,
\* with the digest of package.zip equal to the digest in hash.json.
C21_SuccessHasArtifacts ==
  /\ SuccessHasArtifacts(registry)
  /\ SuccessHasArtifacts(registry_json)
  /\ SuccessHasArtifacts(app_registry)

(***************************************************************************)
(* The registry under set_package_status calls and sync runs, from a       *)
(* stored registry with unique identifiers.  Between two runs a caller     *)
(* loads the registry, sets a status and saves it.                         *)
(***************************************************************************)
\* the files sync_package leaves for an entry with status success
SyncedFiles == [hash |-> "h1", elm |-> TRUE, zip |-> "z1"]

StoreOf(packages) ==
  [d \in Dirs |->
     IF \E k \in 1..Len(packages) :
          packages[k].status = STATUS_SUCCESS /\ DirOfId(packages[k].id) = d
       THEN SyncedFiles ELSE NoFiles]

InitRegistry ==
  /\ outcomes = <<>>
  /\ AuxIdle
  /\ registry_json \in StoredRegistries
  /\ catalog = (registry_json /= <<>>)
  /\ files = StoreOf(registry_json)
  /\ app_registry = registry_json
  /\ pc = "sleep"
  /\ runs = 0
  /\ NoLocals
  /\ resp = NoResponse
  /\ verify = NotVerified

\* load_registry, set_package_status, save_registry
SetStatusCall ==
  /\ pc = "sleep"
  /\ \E id \in GoodIds, status \in Statuses :
       registry_json' = set_package_status(registry_json, id, status)
  /\ resp' = NoResponse
  /\ UNCHANGED <<catalog, files, app_registry, pc, runs, locals, verify, outcomes, aux>>

\* upstream lists that repeat an identifier or hold a known one
RegistryRemoteLists == {<<>>, <<P1, P1>>, <<P2, P1>>, <<P1, BAD>>}

NextRegistry ==
  \/ SetStatusCall
  \/ SyncStartFrom(RegistryRemoteLists, LoopPolicies)
  \/ SyncFetchFails
  \/ SyncFilter
  \/ SyncPackageRaises
  \/ SyncEndpointFails
  \/ SyncEndpoint
  \/ SyncElmJsonFails
  \/ SyncElmJson
  \/ SyncZipFails
  \/ SyncZip
  \/ SyncVerifyHash
  \/ SyncFinalSave
  \/ SyncReload

SpecRegistry == InitRegistry /\ [][NextRegistry]_vars

(***************************************************************************)
(* Properties of the registry's entry list (SpecRegistry).                 *)
(***************************************************************************)
\* C22: from a registry with unique identifiers, after any sequence of
\* set_package_status calls and sync runs, the entry list of the run's
\* registry, of registry.json and of the server's registry holds each
\* identifier at most once.
C22_UniqueIdentifiers ==
  /\ NoRepeat(IdsOf(registry))
  /\ NoRepeat(IdsOf(registry_json))
  /\ NoRepeat(IdsOf(app_registry))

\* C22: a run whose upstream list repeats a/b@1, an identifier the registry
\* already held next to a/b@2, has completed with a registry of two entries
C22_Witness ==
  /\ pc = "reload"
  /\ remote_packages = <<P1, P1>>
  /\ P1 \in Range(IdsOf(start_registry))
  /\ P2 \in Range(IdsOf(start_registry))
  /\ Len(registry) = 2

(***************************************************************************)
(* set_package_status and get_package_status on any registry: one call of  *)
(* set_package_status, then get_package_status for the same identifier or  *)
(* the same call of set_package_status once more.                          *)
(***************************************************************************)
MaxEntries == 3

\* the registries of up to MaxEntries entries, identifiers repeated or not
Registries == SeqsUpTo([id : Ids, status : Statuses], MaxEntries)

InitUpsert ==
  /\ registry \in Registries
  /\ registry_json = <<>>
  /\ catalog = FALSE
  /\ files = EmptyStore
  /\ app_registry = <<>>
  /\ pc = "sleep"
  /\ runs = 0
  /\ package_list = NoPolicy
  /\ remote_packages = <<>>
  /\ new_packages = <<>>
  /\ packages_to_sync = <<>>
  /\ i = 0
  /\ success_count = 0
  /\ fail_count = 0
  /\ expected_hash = ""
  /\ start_registry = <<>>
  /\ candidates = <<>>
  /\ attempted = {}
  /\ resp = NoResponse
  /\ verify = NotVerified
  /\ outcomes = <<>>
  /\ AuxIdle

\* set_package_status(registry, package_id, status)
SetStatus ==
  /\ call.op = ""
  /\ \E package_id \in Ids, status \in Statuses :
       /\ registry' = set_package_status(registry, package_id, status)
       /\ call' = [NoCall EXCEPT !.op = "set", !.package_id = package_id,
                                 !.status = status, !.before = registry,
                                 !.once = registry']
  /\ UNCHANGED <<disk, app_registry, pc, runs, package_list, remote_packages, new_packages,
                 packages_to_sync, i, success_count, fail_count, expected_hash,
                 start_registry, candidates, attempted, resp, verify, outcomes,
                 registry_file, saver, registry_lock, threads>>

\* get_package_status(registry, package_id) after the call
GetStatus ==
  /\ call.op = "set"
  /\ call' = [call EXCEPT !.op = "get",
                          !.got = get_package_status(registry, call.package_id)]
  /\ UNCHANGED <<registry, disk, app_registry, pc, runs, package_list, remote_packages, new_packages,
                 packages_to_sync, i, success_count, fail_count, expected_hash,
                 start_registry, candidates, attempted, resp, verify, outcomes,
                 registry_file, saver, registry_lock, threads>>

\* the same call of set_package_status once more
SetStatusAgain ==
  /\ call.op = "set"
  /\ registry' = set_package_status(registry, call.package_id, call.status)
  /\ call' = [call EXCEPT !.op = "set_again"]
  /\ UNCHANGED <<disk, app_registry, pc, runs, package_list, remote_packages, new_packages,
                 packages_to_sync, i, success_count, fail_count, expected_hash,
                 start_registry, candidates, attempted, resp, verify, outcomes,
                 registry_file, saver, registry_lock, threads>>

NextUpsert == SetStatus \/ GetStatus \/ SetStatusAgain

SpecUpsert == InitUpsert /\ [][NextUpsert]_vars

(***************************************************************************)
(* Properties of set_package_status (SpecUpsert).                          *)
(***************************************************************************)
\* the identifier is in the registry before the call
Present == call.package_id \in Range(IdsOf(call.before))

\* the index of the first entry with the identifier before the call
FirstIndex == CHOOSE k \in 1..Len(call.before) :
                /\ call.before[k].id = call.package_id
                /\ \A j \in 1..(k - 1) : call.before[j].id /= call.package_id

\* C23: after set_package_status(id, s), get_package_status(id) returns s; the
\* call changes the status of the existing entry in place when id is present
\* and appends one entry at the end otherwise; every other entry keeps its
\* identifier, its status and its place; the call made twice gives the registry
\* of the call made once.
C23_Upsert ==
  /\ call.op = "get" => call.got = call.status
  /\ call.op /= "" =>
       IF Present
         THEN /\ Len(call.once) = Len(call.before)
              /\ call.once[FirstIndex] = Entry(call.package_id, call.status)
              /\ \A k \in 1..Len(call.before) :
                   k /= FirstIndex => call.once[k] = call.before[k]
         ELSE /\ Len(call.once) = Len(call.before) + 1
              /\ call.once[Len(call.once)] = Entry(call.package_id, call.status)
              /\ \A k \in 1..Len(call.before) : call.once[k] = call.before[k]
  /\ call.op = "set_again" => registry = call.once

\* C23: a/b@1 was pending in the middle of three entries, set_package_status
\* made it success in place, and get_package_status returned success
C23_Witness ==
  /\ call.op = "get"
  /\ call.before = <<Entry(P2, STATUS_FAILED), Entry(P1, STATUS_PENDING),
                     Entry(BAD, STATUS_IGNORED)>>
  /\ call.package_id = P1
  /\ call.status = STATUS_SUCCESS
  /\ call.got = STATUS_SUCCESS
  /\ registry = <<Entry(P2, STATUS_FAILED), Entry(P1, STATUS_SUCCESS),
                  Entry(BAD, STATUS_IGNORED)>>

(***************************************************************************)
(* Properties of a completed run (SpecRegistry).                           *)
(***************************************************************************)
NoPending(packages) ==
  \A k \in 1..Len(packages) : packages[k].status /= STATUS_PENDING

\* the entries of the work-list that pass the filter by package list
Passed ==
  {k \in 1..Len(candidates) : should_sync_package(candidates[k], package_list) = "yes"}

\* C24: when a run that loaded a registry without pending entries has
\* completed, neither its registry nor registry.json holds a pending entry,
\* every identifier of the work-list (discovered or retried) is success, failed
\* or ignored, and success_count + fail_count is the number of work-list
\* entries that passed the filter.
C24_CompletedRunSettles ==
  (RunCompleted /\ NoPending(start_registry)) =>
    /\ NoPending(registry)
    /\ NoPending(registry_json)
    /\ \A k \in 1..Len(candidates) :
         get_package_status(registry, candidates[k])
           \in {STATUS_SUCCESS, STATUS_FAILED, STATUS_IGNORED}
    /\ success_count + fail_count = Cardinality(Passed)

\* C24: a run with the package list ["a/b@1"] that loaded a/b@1 as failed and
\* discovered a/b@2 has completed: one entry was synced, one ignored
C24_Witness ==
  /\ RunCompleted
  /\ start_registry = <<Entry(P1, STATUS_FAILED)>>
  /\ new_packages = <<P2>>
  /\ package_list = Policy({P1})
  /\ success_count = 1
  /\ fail_count = 0
  /\ registry = <<Entry(P2, STATUS_IGNORED), Entry(P1, STATUS_SUCCESS)>>

====
